---- MODULE Spec2Model ----
(***************************************************************************)
(* Model of src/src/u64_goldilocks.rs: the GoldilocksField element over    *)
(* p = 2^64 - 2^32 + 1 with u64 base type.                                 *)
(*                                                                         *)
(* Integers of the program are 64 bits wide, wider than the integers the   *)
(* model checker evaluates.  A natural number is therefore a little-endian *)
(* sequence of bytes without trailing zero bytes (<<>> is 0), of any       *)
(* length; a u64 is such a number of at most 8 bytes.  Sums and products   *)
(* are computed exactly, and the u64 width is applied where the code       *)
(* applies it (Fits64 / Low64).                                            *)
(***************************************************************************)
EXTENDS Integers, Sequences, FiniteSets

VARIABLES overflow_checks, pc, call, ret

vars == <<overflow_checks, pc, call, ret>>

(***************************************************************************)
(* Exact natural-number arithmetic on byte sequences.                      *)
(***************************************************************************)
Digit(a, i) == IF i <= Len(a) THEN a[i] ELSE 0

Max(i, j) == IF i < j THEN j ELSE i

Min(i, j) == IF i < j THEN i ELSE j

\* a without its trailing zero bytes.
Norm(a) ==
  LET nz == {i \in 1 .. Len(a) : a[i] # 0}
  IN  IF nz = {} THEN <<>>
      ELSE SubSeq(a, 1, CHOOSE i \in nz : \A j \in nz : j <= i)

RECURSIVE NatOf(_)
NatOf(n) == IF n = 0 THEN <<>> ELSE <<n % 256>> \o NatOf(n \div 256)

\* F applied to the value of x: x is evaluated once, before F.
Then(x, F(_)) == CHOOSE y \in {F(v) : v \in {x}} : TRUE

\* The carry into column i of a sum whose columns cols are each at most
\* 510, with carry cin into column 1: some column below i (or cin) makes a
\* carry and every column between passes it on.
CarryInto(cols, cin, i) ==
  \E j \in 0 .. i - 1 :
    /\ IF j = 0 THEN cin = 1 ELSE cols[j] >= 256
    /\ \A k \in j + 1 .. i - 1 : cols[k] >= 255

\* The n + 1 bytes of the sum with columns cols and carry cin.
SumBytes(cols, cin) ==
  [i \in 1 .. Len(cols) + 1 |->
     (Digit(cols, i) + (IF CarryInto(cols, cin, i) THEN 1 ELSE 0)) % 256]

\* a + b + cin, cin at most 1.
NatAddC(a, b, cin) ==
  Norm(SumBytes([i \in 1 .. Max(Len(a), Len(b)) |->
                   Digit(a, i) + Digit(b, i)] \o <<>>, cin))

NatAdd(a, b) == NatAddC(a, b, 0)

\* a - b for a >= b: a plus the complement of b plus 1, less 256^Len(a).
NatSub(a, b) ==
  Norm(SubSeq(SumBytes([i \in 1 .. Len(a) |-> a[i] + 255 - Digit(b, i)]
                         \o <<>>, 1),
              1, Len(a)))

NatLess(a, b) ==
  IF Len(a) # Len(b) THEN Len(a) < Len(b)
  ELSE LET diff == {i \in 1 .. Len(a) : a[i] # b[i]}
           top  == CHOOSE i \in diff : \A j \in diff : j <= i
       IN  diff # {} /\ a[top] < b[top]

NatLeq(a, b) == ~NatLess(b, a)

\* The sum of a[i] * b[k + 1 - i] for i in lo .. hi: part of column k of a * b.
RECURSIVE SumProducts(_, _, _, _, _)
SumProducts(a, b, k, lo, hi) ==
  IF lo > hi THEN 0
  ELSE IF lo = hi THEN a[lo] * b[k + 1 - lo]
  ELSE SumProducts(a, b, k, lo, (lo + hi) \div 2)
         + SumProducts(a, b, k, ((lo + hi) \div 2) + 1, hi)

\* The columns of a * b, each below 2^24.
ProductColumns(a, b) ==
  [k \in 1 .. Len(a) + Len(b) - 1 |->
     SumProducts(a, b, k, Max(1, k + 1 - Len(b)), Min(Len(a), k))] \o <<>>

\* Byte p (0, 1, 2) of every column, moved up p places.
Plane(cols, p) ==
  [i \in 1 .. Len(cols) + p |->
     IF i <= p THEN 0 ELSE (cols[i - p] \div (256 ^ p)) % 256] \o <<>>

NatMul(a, b) ==
  IF a = <<>> \/ b = <<>> THEN <<>>
  ELSE LET cols == ProductColumns(a, b)
       IN  NatAdd(NatAdd(Plane(cols, 0), Plane(cols, 1)), Plane(cols, 2))

\* One bit of long division: r < m on entry and on exit.
DivStep(r, bit, m) ==
  LET d == NatAddC(r, r, bit)
  IN  IF NatLess(d, m) THEN d ELSE NatSub(d, m)

\* Bit j of a counted from its most significant end (bit 1 is the top bit of
\* the last byte).
BitFromTop(a, j) ==
  (a[Len(a) - ((j - 1) \div 8)] \div (2 ^ (7 - ((j - 1) % 8)))) % 2

\* Long division of a by m (m # 0), bits lo .. hi of a taken into the
\* remainder r from the most significant end (the recursion halves the range).
RECURSIVE RemBits(_, _, _, _, _)
RemBits(a, m, r, lo, hi) ==
  IF lo > hi THEN r
  ELSE IF lo = hi THEN DivStep(r, BitFromTop(a, lo), m)
  ELSE Then(RemBits(a, m, r, lo, (lo + hi) \div 2),
            LAMBDA left : RemBits(a, m, left, ((lo + hi) \div 2) + 1, hi))

\* a mod m.  The top bytes of a that are fewer than those of m are below m
\* and are the remainder to start from.
NatMod(a, m) ==
  IF Len(a) < Len(m) THEN a
  ELSE RemBits(a, m, Norm(SubSeq(a, Len(a) - Len(m) + 2, Len(a))),
               8 * (Len(m) - 1) + 1, 8 * Len(a))

Fits64(a) == Len(a) <= 8

\* The low 64 bits of a: what a wrapping u64 operation keeps.
Low64(a) == Norm(SubSeq(a, 1, IF Len(a) < 8 THEN Len(a) ELSE 8))

TwoTo64 == <<0, 0, 0, 0, 0, 0, 0, 0, 1>>

(***************************************************************************)
(* Outcomes of a call: a value, an error value, or a panic.                *)
(***************************************************************************)
Ok(v) == [tag |-> "Ok", val |-> v]

Err(e) == [tag |-> "Err", val |-> e]

Panic(msg) == [tag |-> "Panic", val |-> msg]

(***************************************************************************)
(* u64 primitives.  An overflowing +, - or * panics when the build has     *)
(* overflow checks on and wraps modulo 2^64 when it has them off.          *)
(***************************************************************************)
U64Add(a, b) ==
  LET s == NatAdd(a, b)
  IN  IF Fits64(s) THEN Ok(s)
      ELSE IF overflow_checks THEN Panic("attempt to add with overflow")
      ELSE Ok(Low64(s))

U64Sub(a, b) ==
  IF NatLeq(b, a) THEN Ok(NatSub(a, b))
  ELSE IF overflow_checks THEN Panic("attempt to subtract with overflow")
  ELSE Ok(Low64(NatSub(NatAdd(a, TwoTo64), b)))

U64Mul(a, b) ==
  LET m == NatMul(a, b)
  IN  IF Fits64(m) THEN Ok(m)
      ELSE IF overflow_checks THEN Panic("attempt to multiply with overflow")
      ELSE Ok(Low64(m))

U64Rem(a, m) == NatMod(a, m)

(***************************************************************************)
(* GoldilocksField                                                         *)
(***************************************************************************)
\* 0xffff_ffff_0000_0001
MODULUS == <<1, 0, 0, 0, 255, 255, 255, 255>>

from(a) ==
  IF NatLeq(MODULUS, a) THEN [value |-> U64Rem(a, MODULUS)]
  ELSE [value |-> a]

new(a) == IF NatLeq(MODULUS, a) THEN U64Rem(a, MODULUS) ELSE a

generator == <<7>>

add(a, b) ==
  LET s == U64Add(a, b)
  IN  IF s.tag = "Ok" THEN Ok(U64Rem(s.val, MODULUS)) ELSE s

sub(a, b) ==
  LET s == U64Add(a, MODULUS)
      d == U64Sub(s.val, b)
  IN  IF s.tag # "Ok" THEN s
      ELSE IF d.tag # "Ok" THEN d
      ELSE Ok(U64Rem(d.val, MODULUS))

neg(a) ==
  LET d == U64Sub(MODULUS, a)
  IN  IF d.tag = "Ok" THEN Ok(U64Rem(d.val, MODULUS)) ELSE d

mul(a, b) ==
  LET m == U64Mul(a, b)
  IN  IF m.tag = "Ok" THEN Ok(U64Rem(m.val, MODULUS)) ELSE m

zero == <<>>

one == <<1>>

square(a) == mul(a, a)

\* The bits of e, least significant first, up to its highest set bit.
RECURSIVE BitsOfByte(_, _)
BitsOfByte(b, k) ==
  IF k = 0 THEN <<>> ELSE <<b % 2>> \o BitsOfByte(b \div 2, k - 1)

RECURSIVE TrimBits(_)
TrimBits(bits) ==
  IF bits = <<>> THEN <<>>
  ELSE IF bits[Len(bits)] = 0 THEN TrimBits(SubSeq(bits, 1, Len(bits) - 1))
  ELSE bits

RECURSIVE AllBits(_)
AllBits(e) ==
  IF e = <<>> THEN <<>> ELSE BitsOfByte(Head(e), 8) \o AllBits(Tail(e))

ToBits(e) == TrimBits(AllBits(e))

\* One squaring of the running result, for a low zero bit of the exponent.
SquareStep(st) == square(st.val)

\* n squarings in a row; an outcome that is not Ok (a panic) ends them.
\* The recursion halves n, so that its depth stays logarithmic; the steps
\* are still taken one after the other.
RECURSIVE SquareTimes(_, _)
SquareTimes(st, n) ==
  IF st.tag # "Ok" \/ n = 0 THEN st
  ELSE IF n = 1 THEN SquareStep(st)
  ELSE SquareTimes(SquareTimes(st, n \div 2), n - (n \div 2))

\* One step of square-and-multiply on <<result, base>>: base is squared,
\* and multiplied into result when the bit is set.
PowStep(st, bit) ==
  LET sq == square(st.val[2])
      m  == mul(st.val[1], sq.val)
  IN  IF sq.tag # "Ok" THEN sq
      ELSE IF bit = 0 THEN Ok(<<st.val[1], sq.val>>)
      ELSE IF m.tag # "Ok" THEN m
      ELSE Ok(<<m.val, sq.val>>)

\* The steps for bits lo .. hi, in order (the recursion halves the range);
\* an outcome that is not Ok (a panic) ends them.
RECURSIVE PowLoop(_, _, _, _)
PowLoop(st, bits, lo, hi) ==
  IF st.tag # "Ok" \/ lo > hi THEN st
  ELSE IF lo = hi THEN PowStep(st, bits[lo])
  ELSE PowLoop(PowLoop(st, bits, lo, (lo + hi) \div 2),
               bits, ((lo + hi) \div 2) + 1, hi)

\* Square-and-multiply over the bits of the exponent, with the kernel's
\* mul for every squaring and combining step: the result starts as a, is
\* squared once for each low zero bit, and then takes in the base for
\* every higher set bit.
pow(a, e) ==
  LET bits  == ToBits(e)
      low   == CHOOSE i \in 1 .. Len(bits) : bits[i] = 1 /\ \A j \in 1 .. i - 1 : bits[j] = 0
      start == SquareTimes(Ok(a), low - 1)
      end   == PowLoop(Ok(<<start.val, start.val>>), bits, low + 1, Len(bits))
  IN  IF bits = <<>> THEN Ok(one)
      ELSE IF bits = <<1>> THEN Ok(a)
      ELSE IF start.tag # "Ok" THEN start
      ELSE IF end.tag # "Ok" THEN end
      ELSE Ok(end.val[1])

inv(a) ==
  IF a = <<>> THEN Err("InvZeroError")
  ELSE pow(a, NatSub(MODULUS, <<2>>))

\* Self::mul(a, &Self::inv(b).unwrap())
div(a, b) ==
  LET i == inv(b)
  IN  IF i.tag = "Err"
      THEN Panic("called Result::unwrap on an Err value")
      ELSE IF i.tag # "Ok" THEN i
      ELSE mul(a, i.val)

\* from_u64 without the reduction.
from_u64_unreduced(x) == x

from_u64(x) == U64Rem(x, MODULUS)

from_base_type(x) == from_u64(x)

eq(a, b) == from_u64(a) = from_u64(b)

representative(a) == a

(***************************************************************************)
(* ByteConversion, Serializable, Deserializable                            *)
(***************************************************************************)
RECURSIVE Reverse(_)
Reverse(s) == IF s = <<>> THEN <<>> ELSE Reverse(Tail(s)) \o <<Head(s)>>

\* u64::to_le_bytes: exactly 8 bytes, least significant first.
to_le_bytes(v) == [i \in 1 .. 8 |-> Digit(v, i)]

\* u64::to_be_bytes: exactly 8 bytes, most significant first.
to_be_bytes(v) == Reverse(to_le_bytes(v))

from_le_bytes(bytes) == Norm(bytes)

from_be_bytes(bytes) == Norm(Reverse(bytes))

to_bytes_be(e) == to_be_bytes(e.value)

to_bytes_le(e) == to_le_bytes(e.value)

\* bytes[0..8]: indexing a slice past its end panics; the try_into of the
\* 8-byte slice that is left cannot fail.
SliceTo8(bytes) ==
  IF Len(bytes) < 8
  THEN Panic("range end index 8 out of range for slice")
  ELSE Ok(SubSeq(bytes, 1, 8))

from_bytes_be(bytes) ==
  LET sl == SliceTo8(bytes)
  IN  IF sl.tag # "Ok" THEN sl
      ELSE Ok([value |-> from_be_bytes(sl.val)])

from_bytes_le(bytes) ==
  LET sl == SliceTo8(bytes)
  IN  IF sl.tag # "Ok" THEN sl
      ELSE Ok([value |-> from_le_bytes(sl.val)])

serialize(e) == to_bytes_be(e)

deserialize(bytes) ==
  LET r == from_bytes_be(bytes)
  IN  IF r.tag = "Err" THEN Err("DeserializationError") ELSE r

\* #[derive(PartialEq)]: field-wise comparison of the stored value.
PartialEq(x, y) == x.value = y.value

(***************************************************************************)
(* from_hex.  A string is a sequence of characters; a character is named   *)
(* by itself when it is ASCII and by its code point (U+00E9, U+20AC)       *)
(* otherwise, and takes Utf8Len bytes.                                     *)
(***************************************************************************)
Utf8Len(c) == IF c = "U+00E9" THEN 2 ELSE IF c = "U+20AC" THEN 3 ELSE 1

RECURSIVE ByteLen(_)
ByteLen(s) == IF s = <<>> THEN 0 ELSE Utf8Len(Head(s)) + ByteLen(Tail(s))

\* str::is_char_boundary
IsCharBoundary(s, n) ==
  \E k \in 0 .. Len(s) : ByteLen(SubSeq(s, 1, k)) = n

\* The number of characters in the first n bytes (n a char boundary).
CharsIn(s, n) == CHOOSE k \in 0 .. Len(s) : ByteLen(SubSeq(s, 1, k)) = n

LowerDigits ==
  <<"0", "1", "2", "3", "4", "5", "6", "7", "8", "9",
    "a", "b", "c", "d", "e", "f">>

UpperDigits ==
  <<"0", "1", "2", "3", "4", "5", "6", "7", "8", "9",
    "A", "B", "C", "D", "E", "F">>

\* char::to_digit(16); -1 stands for None.
to_digit(c) ==
  IF \E i \in 1 .. 16 : LowerDigits[i] = c
  THEN (CHOOSE i \in 1 .. 16 : LowerDigits[i] = c) - 1
  ELSE IF \E i \in 1 .. 16 : UpperDigits[i] = c
  THEN (CHOOSE i \in 1 .. 16 : UpperDigits[i] = c) - 1
  ELSE -1

\* The digit loop of from_str_radix: checked multiply and add.
RECURSIVE ParseDigits(_, _, _)
ParseDigits(s, i, acc) ==
  IF i > Len(s) THEN Ok(acc)
  ELSE IF to_digit(s[i]) < 0 THEN Err("InvalidDigit")
  ELSE LET next == NatAdd(NatMul(acc, <<16>>), NatOf(to_digit(s[i])))
       IN  IF Fits64(next) THEN ParseDigits(s, i + 1, next)
           ELSE Err("PosOverflow")

\* u64::from_str_radix(s, 16): a single leading '+' is accepted, a sign
\* alone is not, and '-' is no digit of an unsigned type.
from_str_radix(s) ==
  IF s = <<>> THEN Err("Empty")
  ELSE IF Len(s) = 1 /\ s[1] \in {"+", "-"} THEN Err("InvalidDigit")
  ELSE IF s[1] = "+" THEN ParseDigits(s, 2, <<>>)
  ELSE ParseDigits(s, 1, <<>>)

from_hex(hex_string) ==
  LET stripped ==
        IF ByteLen(hex_string) > 2
        THEN IF ~IsCharBoundary(hex_string, 2)
             THEN Panic("byte index 2 is not a char boundary")
             ELSE IF SubSeq(hex_string, 1, CharsIn(hex_string, 2)) = <<"0", "x">>
             THEN Ok(SubSeq(hex_string, CharsIn(hex_string, 2) + 1, Len(hex_string)))
             ELSE Ok(hex_string)
        ELSE Ok(hex_string)
      parsed == from_str_radix(stripped.val)
  IN  IF stripped.tag # "Ok" THEN stripped
      ELSE IF parsed.tag = "Err" THEN Err("InvalidHexString")
      ELSE parsed

(***************************************************************************)
(* Inputs of the calls.                                                    *)
(***************************************************************************)
\* Small values 0 .. MaxSmall.
MaxSmall == 5

\* Values within MaxDelta of 2^32, of MODULUS and below 2^64.
MaxDelta == 1

\* Bytes following the 8 a decoder reads.
MaxExtra == 1

\* Length of the enumerated hex strings.
MaxHexLen == 3

TwoTo32 == <<0, 0, 0, 0, 1>>

U64Max == <<255, 255, 255, 255, 255, 255, 255, 255>>

U64Inputs ==
  {NatOf(k) : k \in 0 .. MaxSmall}
    \cup {NatSub(TwoTo32, NatOf(d)) : d \in 0 .. MaxDelta}
    \cup {NatAdd(TwoTo32, NatOf(d)) : d \in 0 .. MaxDelta}
    \cup {NatSub(MODULUS, NatOf(d)) : d \in 0 .. MaxDelta}
    \cup {NatAdd(MODULUS, NatOf(d)) : d \in 0 .. MaxDelta}
    \cup {NatSub(U64Max, NatOf(d)) : d \in 0 .. MaxDelta}

Dividends == {zero, NatOf(4), NatSub(MODULUS, one)}

CodecValues ==
  {zero, one, <<1, 2, 3, 4, 5, 6, 7, 8>>, NatSub(MODULUS, one), MODULUS,
   NatAdd(MODULUS, one), U64Max}

Padding == [i \in 1 .. MaxExtra |-> 170]

\* Every prefix of an 8-byte encoding followed by the padding.
ByteInputs ==
  {SubSeq(enc \o Padding, 1, n) :
     enc \in {to_be_bytes(v) : v \in CodecValues},
     n \in 0 .. 8 + MaxExtra}

HexAlphabet == {"0", "1", "a", "F", "x", "g", "+", "-", "U+00E9", "U+20AC"}

Repeat(c, n) == [i \in 1 .. n |-> c]

HexInputs ==
  UNION {[1 .. n -> HexAlphabet] : n \in 0 .. MaxHexLen}
    \cup {pre \o body :
            pre \in {<<>>, <<"0", "x">>, <<"+">>},
            body \in {Repeat("f", 16), <<"1">> \o Repeat("0", 16),
                      <<"1", "0">>, <<"z", "z">>}}

\* How a caller gets hold of an element.
Constructions ==
  {[by |-> "from", input |-> a] : a \in U64Inputs}
    \cup {[by |-> kind, input |-> b] :
            kind \in {"from_bytes_be", "from_bytes_le", "deserialize"},
            b \in {x \in ByteInputs : Len(x) >= 8}}

Construct(c) ==
  CASE c.by = "from" -> Ok(from(c.input))
    [] c.by = "from_bytes_be" -> from_bytes_be(c.input)
    [] c.by = "from_bytes_le" -> from_bytes_le(c.input)
    [] c.by = "deserialize" -> deserialize(c.input)

(***************************************************************************)
(* The state machine: a caller makes one call at a time.  Every operation  *)
(* is a pure function, so the state is the build profile, the call made    *)
(* and its outcome.  The arguments are recorded under the names of the     *)
(* parameters and the outcome under the name of its type.                  *)
(***************************************************************************)
NoCall == [op |-> "none", args |-> <<>>]

NoRet == [tag |-> "None", val |-> <<>>]

Init ==
  /\ overflow_checks \in BOOLEAN
  /\ pc = "idle"
  /\ call = NoCall
  /\ ret = NoRet

\* The outcome as the caller receives it: a value of the returned type, or
\* the message of the error or panic.
Received(type, outcome) ==
  [tag |-> outcome.tag,
   val |-> IF outcome.tag = "Ok" THEN [t \in {type} |-> outcome.val]
           ELSE [t \in {"message"} |-> outcome.val]]

Returns(op, args, type, outcome) ==
  /\ pc' = "done"
  /\ call' = [op |-> op, args |-> args]
  /\ ret' = Received(type, outcome)
  /\ UNCHANGED overflow_checks

Add ==
  /\ pc = "idle"
  /\ \E a, b \in U64Inputs :
       Returns("add", [a |-> a, b |-> b], "u64", add(a, b))

Sub ==
  /\ pc = "idle"
  /\ \E a, b \in U64Inputs :
       Returns("sub", [a |-> a, b |-> b], "u64", sub(a, b))

Neg ==
  /\ pc = "idle"
  /\ \E a \in U64Inputs : Returns("neg", [a |-> a], "u64", neg(a))

Mul ==
  /\ pc = "idle"
  /\ \E a, b \in U64Inputs :
       Returns("mul", [a |-> a, b |-> b], "u64", mul(a, b))

Div ==
  /\ pc = "idle"
  /\ \E a \in Dividends, b \in U64Inputs :
       Returns("div", [a |-> a, b |-> b], "u64", div(a, b))

Inv ==
  /\ pc = "idle"
  /\ \E a \in U64Inputs : Returns("inv", [a |-> a], "u64", inv(a))

Eq ==
  /\ pc = "idle"
  /\ \E a, b \in U64Inputs :
       Returns("eq", [a |-> a, b |-> b], "bool", Ok(eq(a, b)))

FromU64 ==
  /\ pc = "idle"
  /\ \E x \in U64Inputs :
       Returns("from_u64", [x |-> x], "u64", Ok(from_u64(x)))

FromBaseType ==
  /\ pc = "idle"
  /\ \E x \in U64Inputs :
       Returns("from_base_type", [x |-> x], "u64", Ok(from_base_type(x)))

From ==
  /\ pc = "idle"
  /\ \E a \in U64Inputs :
       Returns("from", [a |-> a], "element", Ok(from(a)))

ToBytesBe ==
  /\ pc = "idle"
  /\ \E v \in CodecValues :
       Returns("to_bytes_be", [self |-> [value |-> v]], "bytes",
               Ok(to_bytes_be([value |-> v])))

ToBytesLe ==
  /\ pc = "idle"
  /\ \E v \in CodecValues :
       Returns("to_bytes_le", [self |-> [value |-> v]], "bytes",
               Ok(to_bytes_le([value |-> v])))

FromBytesBe ==
  /\ pc = "idle"
  /\ \E b \in ByteInputs :
       Returns("from_bytes_be", [bytes |-> b], "element", from_bytes_be(b))

FromBytesLe ==
  /\ pc = "idle"
  /\ \E b \in ByteInputs :
       Returns("from_bytes_le", [bytes |-> b], "element", from_bytes_le(b))

Deserialize ==
  /\ pc = "idle"
  /\ \E b \in ByteInputs :
       Returns("deserialize", [bytes |-> b], "element", deserialize(b))

FromHex ==
  /\ pc = "idle"
  /\ \E s \in HexInputs :
       Returns("from_hex", [hex_string |-> s], "u64", from_hex(s))

\* e1 == e2 on two elements the caller has constructed.
ElementEq ==
  /\ pc = "idle"
  /\ \E c1, c2 \in Constructions :
       /\ Construct(c1).tag = "Ok"
       /\ Construct(c2).tag = "Ok"
       /\ Returns("element_eq", [lhs |-> c1, rhs |-> c2], "bool",
                  Ok(PartialEq(Construct(c1).val, Construct(c2).val)))

\* from(representative(e)) == e on an element the caller has constructed.
Rebuild ==
  /\ pc = "idle"
  /\ \E c \in Constructions :
       /\ Construct(c).tag = "Ok"
       /\ Returns("rebuild_eq", [e |-> c], "bool",
                  Ok(PartialEq(from(representative(Construct(c).val.value)),
                               Construct(c).val)))

\* The caller takes the outcome and is ready for the next call.
Return ==
  /\ pc = "done"
  /\ pc' = "idle"
  /\ call' = NoCall
  /\ ret' = NoRet
  /\ UNCHANGED overflow_checks

Next ==
  \/ Add \/ Sub \/ Neg \/ Mul \/ Div \/ Inv
  \/ Eq \/ FromU64 \/ FromBaseType \/ From
  \/ ToBytesBe \/ ToBytesLe \/ FromBytesBe \/ FromBytesLe \/ Deserialize
  \/ FromHex \/ ElementEq \/ Rebuild
  \/ Return

Spec == Init /\ [][Next]_vars

(***************************************************************************)
(* Properties.  The reference values are computed over the unbounded       *)
(* naturals (NatAdd, NatMul, NatMod), not with the u64 primitives.         *)
(***************************************************************************)
Called(op) == pc = "done" /\ call.op = op

\* Outcome r is the expected one.
Same(r, expected) == r.tag = expected.tag /\ r.val = expected.val

\* The outcome of the call, without the name of its type.
Got == [tag |-> ret.tag, val |-> ret.val[CHOOSE t \in DOMAIN ret.val : TRUE]]

\* The call has ended in the expected outcome.
Returned(expected) == Same(Got, expected)

\* The canonical value of a raw u64.
Canonical(x) == NatMod(x, MODULUS)

TwoModulus == NatAdd(MODULUS, MODULUS)

\* C1: for all raw u64 a and b, add(a, b) returns exactly (a + b) mod p
\* computed over the unbounded integers, with no wraparound and no overflow
\* fault.
C1_AddIsSumModP ==
  Called("add") =>
    Returned(Ok(NatMod(NatAdd(call.args.a, call.args.b), MODULUS)))

\* C2: for all raw u64 a and b, mul(a, b) returns exactly (a * b) mod p
\* computed over the unbounded integers, never truncated to 64 bits and
\* never faulting.
C2_MulIsProductModP ==
  Called("mul") =>
    Returned(Ok(NatMod(NatMul(call.args.a, call.args.b), MODULUS)))

\* C3: for all raw u64 a and b, sub(a, b) returns the canonical value of
\* a - b in [0, p), with neither a + p overflowing nor the subtraction of b
\* underflowing.  (b < 2^64 < 2p, so a + 2p - b is a natural congruent to
\* a - b.)
C3_SubIsDifferenceModP ==
  Called("sub") =>
    Returned(Ok(NatMod(NatSub(NatAdd(call.args.a, TwoModulus),
                              call.args.b),
                       MODULUS)))

\* C4: inv(a) returns the Zero-Inversion error for every raw u64 a whose
\* canonical value is 0 (a = 0 and a = p), and a success value for every a
\* whose canonical value is not 0.
C4_InvErrorIffCanonicalZero ==
  Called("inv") =>
    IF Canonical(call.args.a) = zero
    THEN Returned(Err("InvZeroError"))
    ELSE ret.tag = "Ok"

\* C5: div(a, b) with a divisor whose canonical value is 0 ends in the
\* Zero-Inversion error, reported as a recoverable error value (no panic, no
\* number); for every other divisor it equals mul(a, inv(b)).
C5_DivByZeroIsError ==
  Called("div") =>
    IF Canonical(call.args.b) = zero
    THEN Returned(Err("InvZeroError"))
    ELSE LET i == inv(call.args.b)
         IN  Returned(IF i.tag = "Ok" THEN mul(call.args.a, i.val) ELSE i)

\* C6: from_bytes_be, from_bytes_le and deserialize return the Byte-Length
\* error as a value (no panic) for a byte sequence of length 0..7, and for a
\* longer one succeed with the value of its first 8 bytes in the requested
\* order.
C6_ShortInputIsError ==
  /\ Called("from_bytes_be") \/ Called("deserialize") =>
       IF Len(call.args.bytes) < 8
       THEN ret.tag = "Err"
       ELSE Returned(Ok([value |-> from_be_bytes(SubSeq(call.args.bytes, 1, 8))]))
  /\ Called("from_bytes_le") =>
       IF Len(call.args.bytes) < 8
       THEN ret.tag = "Err"
       ELSE Returned(Ok([value |-> from_le_bytes(SubSeq(call.args.bytes, 1, 8))]))

\* What is left of s after a leading "0x", looked for only in a string of
\* more than 2 characters.
HexRemainder(s) ==
  IF Len(s) > 2 /\ SubSeq(s, 1, 2) = <<"0", "x">>
  THEN SubSeq(s, 3, Len(s))
  ELSE s

\* The base-16 value of a string of hexadecimal digits, unbounded: two
\* digits to the byte, the last digit the lowest.
HexValue(d) ==
  LET n == Len(d)
      nibble(k) == IF k >= 1 THEN to_digit(d[k]) ELSE 0
  IN  Norm([i \in 1 .. (n + 1) \div 2 |->
              nibble(n - 2 * i + 1) * 16 + nibble(n - 2 * i + 2)] \o <<>>)

\* C7: from_hex(s) never panics; it returns the Invalid-Hex-String error
\* when what is left after the "0x" is empty, holds any character that is
\* no hexadecimal digit (a sign, a non-ASCII character) or denotes a value
\* above 2^64 - 1, and otherwise the base-16 value of it.
C7_FromHexRejectsNonDigits ==
  Called("from_hex") =>
    LET rest == HexRemainder(call.args.hex_string)
    IN  IF rest = <<>> \/ \E i \in 1 .. Len(rest) : to_digit(rest[i]) < 0
        THEN Returned(Err("InvalidHexString"))
        ELSE IF ~Fits64(HexValue(rest))
        THEN Returned(Err("InvalidHexString"))
        ELSE Returned(Ok(HexValue(rest)))

\* C8: for every field element a in [1, p), inv(a) succeeds and
\* mul(a, inv(a)) = 1; and div(4, 3) multiplied by 3 gives 4.
C8_InvIsInverse ==
  /\ Called("inv") /\ call.args.a # zero /\ NatLess(call.args.a, MODULUS) =>
       ret.tag = "Ok" /\ Same(mul(call.args.a, Got.val), Ok(one))
  /\ Called("div") /\ call.args = [a |-> NatOf(4), b |-> NatOf(3)] =>
       ret.tag = "Ok" /\ Same(mul(Got.val, NatOf(3)), Ok(NatOf(4)))

\* a and b, both below 2^64 < 2p, have the same residue mod p.
Congruent(a, b) ==
  \/ a = b
  \/ a = NatAdd(b, MODULUS)
  \/ b = NatAdd(a, MODULUS)

\* C9: for all raw u64 a and b, eq(a, b) is true exactly when
\* a mod p = b mod p, and from_u64 / from_base_type(x) returns x mod p: a
\* value in [0, p) congruent to x that a second canonicalization leaves
\* unchanged.
C9_EqIsCanonicalEquality ==
  /\ Called("eq") =>
       Returned(Ok(Congruent(call.args.a, call.args.b)))
  /\ Called("from_u64") \/ Called("from_base_type") =>
       /\ ret.tag = "Ok"
       /\ NatLess(Got.val, MODULUS)
       /\ Congruent(Got.val, call.args.x)
       /\ from_u64(Got.val) = Got.val

\* C9 witness: eq on the unreduced raw value p and its residue 0 has
\* answered true.
C9_Witness ==
  /\ Called("eq")
  /\ call.args = [a |-> MODULUS, b |-> zero]
  /\ Returned(Ok(TRUE))

\* C10: two elements obtained through the constructors and decoders are
\* equal (==) exactly when their canonical representatives are equal, and
\* the element that from(representative(e)) rebuilds is equal to e.
C10_ElementEqIsCanonicalEquality ==
  /\ Called("element_eq") =>
       Returned(Ok(Canonical(Construct(call.args.lhs).val.value)
                     = Canonical(Construct(call.args.rhs).val.value)))
  /\ Called("rebuild_eq") => Returned(Ok(TRUE))

====
